---- MODULE Spec2Model ----
(***************************************************************************)
(* A model of the persistent graph PGraph (src/src/pgraph) together with   *)
(* its generational Id allocator (src/src/id.rs), per-vertex adjacency     *)
(* table (src/src/pgraph/vertex/adj.rs) and edge entry builder             *)
(* (src/src/pgraph/edge.rs).                                               *)
(*                                                                         *)
(* Graph values live in named handles.  Vertex payloads and edge weights   *)
(* are Arc cells in two heaps, so that sharing between a graph and its     *)
(* clones, Arc::make_mut and Arc::get_mut are modelled by what they do.    *)
(* Slot indices are 0-based as in the source; position i of a model        *)
(* sequence holds slot i-1.                                                *)
(***************************************************************************)
EXTENDS Integers, Sequences, FiniteSets, TLC

\* ---------------------------------------------------------------- bounds
Handles  == {"g", "h"}     \* the graph variables of the client program
DataVals == {1, 2}         \* vertex payloads V
Weights  == {1, 2}         \* edge weights E
MaxSlots == 2              \* cap on the length of guts
MaxGen   == 4              \* cap on the draws from GENERATION
MaxBatch == 2              \* cap on the length of a bulk input
MaxCalls == 7              \* cap on the calls of a run
MaxSharedCalls == 5        \* cap on the calls of a run with two graph variables
MaxTryCalls == 5           \* cap on the calls of a run with the checked operations
Threads  == {"t1", "t2", "t3"}   \* threads that own allocators of their own
MaxDraws == 4              \* cap on the draws the threads make from GENERATION
UsizeBits == 3             \* width of usize, the type of the counter

VARIABLES
    GENERATION,   \* id.rs: static GENERATION: AtomicUsize
    graphs,       \* handle -> PGraph value (or NoGraph)
    arcV,         \* heap of Arc<V> cells: cell -> payload
    arcE,         \* heap of Arc<E> cells: cell -> weight
    removed,      \* handle -> Ids removed from the graph held by the handle
    last,         \* the last call: operation, result
    calls,        \* the number of calls made
    threads,      \* thread -> its position in an IdGen method, its allocators
    eqcall        \* a call of AdjList::eq: its position, its locals, its result

vars == <<GENERATION, graphs, arcV, arcE, removed, last, calls, threads, eqcall>>

\* ------------------------------------------------------------ option values
NoneV == [some |-> FALSE]
SomeVertex(id, data, adj) == [some |-> TRUE, id |-> id, data |-> data, adj |-> adj]
NoneE == [some |-> FALSE]
SomeEdge(id, weight) == [some |-> TRUE, id |-> id, weight |-> weight]
NoGraph == [some |-> FALSE]
NoId == [index |-> 0 - 1, generation |-> 0 - 1]

Min(S) == CHOOSE m \in S : \A n \in S : m <= n

\* The program state threaded through the methods.
State == [GENERATION |-> GENERATION, graphs |-> graphs, arcV |-> arcV, arcE |-> arcE]

Ok(st, ret) == [st |-> st, ret |-> ret, panic |-> FALSE, msg |-> ""]
Panic(st, msg) == [st |-> st, ret |-> FALSE, panic |-> TRUE, msg |-> msg]

\* ------------------------------------------------------------------ id.rs
\* create_id that stamps every Id with slot 0
create_id_slot0(idgen, index) == [index |-> 0, generation |-> idgen.current_gen]

create_id(idgen, index) == [index |-> index, generation |-> idgen.current_gen]

\* a fetch that returns the counter and does not move it
fetch_add_stuck(counter) == [ret |-> counter, counter |-> counter]

\* GENERATION.fetch_add(1, Ordering::Relaxed): one atomic read-modify-write
\* on a usize, so the addition wraps
fetch_add(counter) == [ret |-> counter, counter |-> (counter + 1) % (2 ^ UsizeBits)]

\* IdGen::new: current_gen is the value fetch_add returns, the counter moves on
IdGen_new(st) ==
    [st |-> [st EXCEPT !.GENERATION = fetch_add(st.GENERATION).counter],
     idgen |-> [current_gen |-> fetch_add(st.GENERATION).ret]]

IdGen_clone(st) == IdGen_new(st)

next_gen(st, h) ==
    [st EXCEPT !.GENERATION = fetch_add(st.GENERATION).counter,
               !.graphs[h].idgen = [current_gen |-> fetch_add(st.GENERATION).ret]]

\* ------------------------------------------------------------------- Arc
\* A cell is named by the place that allocates it and a number: <<slot, k>>
\* for a payload, <<slot, adjacency position, k>> for a weight.
FreshK(heap, pool) ==
    Min({k \in 0..Cardinality(DOMAIN heap) : Append(pool, k) \notin DOMAIN heap})

Arc_new(heap, pool, v) ==
    LET c == Append(pool, FreshK(heap, pool)) IN [heap |-> heap @@ (c :> v), cell |-> c]

VertexAt(st, h, i) ==
    IF st.graphs[h].some /\ i <= Len(st.graphs[h].guts) THEN st.graphs[h].guts[i] ELSE NoneV

EdgeAt(st, h, i, j) ==
    LET v == VertexAt(st, h, i)
    IN  IF v.some /\ j <= Len(v.adj) THEN v.adj[j] ELSE NoneE

\* the Arc<E> handles on a cell: <<handle, slot position, adj position>>
WeightRefs(st, c) ==
    {r \in Handles \X (1..MaxSlots) \X (1..MaxSlots) :
        EdgeAt(st, r[1], r[2], r[3]).some /\ EdgeAt(st, r[1], r[2], r[3]).weight = c}

\* the Arc<V> handles on a cell: <<handle, slot position>>
DataRefs(st, c) ==
    {r \in Handles \X (1..MaxSlots) :
        VertexAt(st, r[1], r[2]).some /\ VertexAt(st, r[1], r[2]).data = c}

strong_count_E(st, c) == Cardinality(WeightRefs(st, c))
strong_count_V(st, c) == Cardinality(DataRefs(st, c))

\* Cell numbers carry no meaning.  When a call returns, the cells whose last
\* handle is gone are freed and the cells of each place are numbered in the
\* order of the handles that hold them: the cell "g" holds is 0, the cell "h"
\* holds is 0 when "g" holds the same cell or none, and 1 otherwise.
CanonKE(st, h, i, j) ==
    IF /\ h # "g"
       /\ EdgeAt(st, "g", i, j).some
       /\ EdgeAt(st, "g", i, j).weight # EdgeAt(st, h, i, j).weight
    THEN 1 ELSE 0

CanonKV(st, h, i) ==
    IF /\ h # "g"
       /\ VertexAt(st, "g", i).some
       /\ VertexAt(st, "g", i).data # VertexAt(st, h, i).data
    THEN 1 ELSE 0

CanonGraph(st, h) ==
    LET G == st.graphs[h]
    IN  IF ~G.some THEN G
        ELSE [G EXCEPT !.guts =
                [i \in 1..Len(G.guts) |->
                    IF ~G.guts[i].some THEN G.guts[i]
                    ELSE [G.guts[i] EXCEPT
                            !.data = <<i, CanonKV(st, h, i)>>,
                            !.adj = [j \in 1..Len(G.guts[i].adj) |->
                                        IF ~G.guts[i].adj[j].some THEN G.guts[i].adj[j]
                                        ELSE [G.guts[i].adj[j] EXCEPT
                                                !.weight = <<i, j, CanonKE(st, h, i, j)>>]]]]]

Canon(st) ==
    LET vnames == {<<r[2], CanonKV(st, r[1], r[2])>> :
                      r \in {q \in Handles \X (1..MaxSlots) : VertexAt(st, q[1], q[2]).some}}
        enames == {<<r[2], r[3], CanonKE(st, r[1], r[2], r[3])>> :
                      r \in {q \in Handles \X (1..MaxSlots) \X (1..MaxSlots) :
                                EdgeAt(st, q[1], q[2], q[3]).some}}
    IN  [st EXCEPT
            !.graphs = [h \in Handles |-> CanonGraph(st, h)],
            !.arcV = [n \in vnames |->
                        IF n[2] = 0 /\ VertexAt(st, "g", n[1]).some
                        THEN st.arcV[VertexAt(st, "g", n[1]).data]
                        ELSE st.arcV[VertexAt(st, "h", n[1]).data]],
            !.arcE = [n \in enames |->
                        IF n[3] = 0 /\ EdgeAt(st, "g", n[1], n[2]).some
                        THEN st.arcE[EdgeAt(st, "g", n[1], n[2]).weight]
                        ELSE st.arcE[EdgeAt(st, "h", n[1], n[2]).weight]]]

\* ------------------------------------------------- pgraph/vertex/adj.rs
AdjList_new == <<>>

\* weight that takes whatever entry the sink's slot holds
AdjList_weight_by_slot(adj, sink) ==
    IF /\ sink.index >= 0
       /\ sink.index < Len(adj)
       /\ adj[sink.index + 1].some
    THEN adj[sink.index + 1]
    ELSE NoneE

AdjList_weight(adj, sink) ==
    IF /\ sink.index >= 0
       /\ sink.index < Len(adj)
       /\ adj[sink.index + 1].some
       /\ adj[sink.index + 1].id = sink
    THEN adj[sink.index + 1]
    ELSE NoneE

AdjList_has_edge(adj, sink) == AdjList_weight(adj, sink).some

\* while self.edges.len() <= sink.index() { self.edges.push_back(None) }
PushNones(adj, index) ==
    [i \in 1..(IF Len(adj) <= index THEN index + 1 ELSE Len(adj)) |->
        IF i <= Len(adj) THEN adj[i] ELSE NoneE]

\* returns the heap with the new Arc and the table with the entry replaced
AdjList_add_edge(heap, slot, adj, sink, weight) ==
    LET a == Arc_new(heap, <<slot, sink.index + 1>>, weight)
        grown == PushNones(adj, sink.index)
    IN  [heap |-> a.heap,
         adj |-> [grown EXCEPT ![sink.index + 1] = SomeEdge(sink, a.cell)]]

AdjList_make_edge_mut(adj, sink) == PushNones(adj, sink.index)

\* disconnect_edge that reports the edge and leaves it in place
AdjList_disconnect_edge_keep(adj, sink) ==
    [adj |-> adj,
     ret |-> /\ sink.index >= 0
             /\ sink.index < Len(adj)
             /\ adj[sink.index + 1].some
             /\ adj[sink.index + 1].id = sink]

AdjList_disconnect_edge(adj, sink) ==
    IF /\ sink.index >= 0
       /\ sink.index < Len(adj)
       /\ adj[sink.index + 1].some
       /\ adj[sink.index + 1].id = sink
    THEN [adj |-> [adj EXCEPT ![sink.index + 1] = NoneE], ret |-> TRUE]
    ELSE [adj |-> adj, ret |-> FALSE]

\* into_iter: the populated entries in slot order
AdjList_into_iter(adj) == SelectSeq(adj, LAMBDA e : e.some)

AdjList_id_iter(adj) ==
    LET es == SelectSeq(adj, LAMBDA e : e.some)
    IN  [i \in 1..Len(es) |-> es[i].id]

\* ------------------------------------------------- pgraph/vertex/mod.rs
Vertex_from(heap, id, data) ==
    LET a == Arc_new(heap, <<id.index + 1>>, data)
    IN  [heap |-> a.heap, vertex |-> SomeVertex(id, a.cell, AdjList_new)]

same_id(v, id) == id = v.id

\* ------------------------------------------------------- pgraph/mod.rs
find_empty(G) == IF G.empties = {} THEN [some |-> FALSE] ELSE [some |-> TRUE, index |-> Min(G.empties)]

PGraph_new(st) ==
    LET n == IdGen_new(st)
    IN  [st |-> n.st,
         graph |-> [some |-> TRUE, guts |-> <<>>, empties |-> {}, idgen |-> n.idgen]]

PGraph_clone(st, G) ==
    LET n == IdGen_clone(st)
    IN  [st |-> n.st,
         graph |-> [some |-> TRUE, guts |-> G.guts, empties |-> G.empties, idgen |-> n.idgen]]

vertex(G, id) ==
    IF /\ id.index >= 0
       /\ id.index < Len(G.guts)
       /\ G.guts[id.index + 1].some
       /\ same_id(G.guts[id.index + 1], id)
    THEN G.guts[id.index + 1]
    ELSE NoneV

has_vertex(G, id) == vertex(G, id).some

has_edge(G, source, sink) ==
    IF vertex(G, source).some THEN AdjList_has_edge(vertex(G, source).adj, sink) ELSE FALSE

\* Option<&E> as the adjacency entry holding the Arc
weight(G, source, sink) ==
    IF vertex(G, source).some THEN AdjList_weight(vertex(G, source).adj, sink) ELSE NoneE

\* Option<&V> and Option<&E> with the Arc read through
vertex_data(G, heapV, id) ==
    IF vertex(G, id).some THEN [some |-> TRUE, v |-> heapV[vertex(G, id).data]]
    ELSE [some |-> FALSE]

weight_of(G, heapE, source, sink) ==
    IF weight(G, source, sink).some
    THEN [some |-> TRUE, v |-> heapE[weight(G, source, sink).weight]]
    ELSE [some |-> FALSE]

\* ids that walks the slots from the last to the first
ids_backwards(G) ==
    LET vs == SelectSeq(G.guts, LAMBDA v : v.some)
    IN  [i \in 1..Len(vs) |-> vs[Len(vs) + 1 - i].id]

ids(G) ==
    LET vs == SelectSeq(G.guts, LAMBDA v : v.some) IN [i \in 1..Len(vs) |-> vs[i].id]

iter_data(G, heapV) ==
    LET vs == SelectSeq(G.guts, LAMBDA v : v.some) IN [i \in 1..Len(vs) |-> heapV[vs[i].data]]

RECURSIVE Flatten(_)
Flatten(ss) == IF ss = <<>> THEN <<>> ELSE Head(ss) \o Flatten(Tail(ss))

iter_weights(G, heapE) ==
    LET vs == SelectSeq(G.guts, LAMBDA v : v.some)
    IN  Flatten([i \in 1..Len(vs) |->
                    [k \in 1..Len(AdjList_into_iter(vs[i].adj)) |->
                        heapE[AdjList_into_iter(vs[i].adj)[k].weight]]])

\* outbound_ids that looks the slot up without comparing generations
outbound_ids_by_slot(G, source) ==
    IF /\ source.index >= 0
       /\ source.index < Len(G.guts)
       /\ G.guts[source.index + 1].some
    THEN AdjList_id_iter(G.guts[source.index + 1].adj)
    ELSE <<>>

outbound_ids(G, source) ==
    IF vertex(G, source).some THEN AdjList_id_iter(vertex(G, source).adj) ELSE <<>>

\* (sink, weight) of the edges outbound_edges yields for source
outbound_edges(G, heapE, source) ==
    IF vertex(G, source).some
    THEN LET es == AdjList_into_iter(vertex(G, source).adj)
         IN  [k \in 1..Len(es) |-> <<es[k].id, heapE[es[k].weight]>>]
    ELSE <<>>

\* ------------------------------------------- pgraph/external_impls.rs
node_count(G) == Cardinality(G.empties)

node_bound(G) == node_count(G)

\* empties.split(&index).0 is the part of empties below index
to_index(G, a) == a.index + Cardinality({e \in G.empties : e < a.index})

\* the loop over empties in ascending order: i moves on past every empty <= i
RECURSIVE from_index_walk(_, _)
from_index_walk(empties, i) ==
    IF empties = {} THEN i
    ELSE IF Min(empties) <= i THEN from_index_walk(empties \ {Min(empties)}, i + 1)
    ELSE i

\* self.guts[i].as_ref().unwrap().id(): the index and the unwrap can panic
from_index(G, i) ==
    LET j == from_index_walk(G.empties, i)
    IN  IF j >= Len(G.guts) THEN [panic |-> TRUE, msg |-> "index out of bounds", ret |-> NoId]
        ELSE IF ~G.guts[j + 1].some THEN [panic |-> TRUE, msg |-> "unwrap on None", ret |-> NoId]
        ELSE [panic |-> FALSE, msg |-> "", ret |-> G.guts[j + 1].id]

\* add_mut that draws a new generation once the vertex is stored
add_mut_advancing(st, h, data) ==
    LET G == st.graphs[h]
        e == find_empty(G)
        index == IF e.some THEN e.index ELSE Len(G.guts)
        id == create_id(G.idgen, index)
        v == Vertex_from(st.arcV, id, data)
        guts2 == IF e.some THEN [G.guts EXCEPT ![index + 1] = v.vertex]
                 ELSE Append(G.guts, v.vertex)
    IN  Ok(next_gen([st EXCEPT !.arcV = v.heap, !.graphs[h].guts = guts2], h), id)

add_mut(st, h, data) ==
    LET G == st.graphs[h]
        e == find_empty(G)
        index == IF e.some THEN e.index ELSE Len(G.guts)
        id == create_id(G.idgen, index)
        v == Vertex_from(st.arcV, id, data)
        guts2 == IF e.some THEN [G.guts EXCEPT ![index + 1] = v.vertex]
                 ELSE Append(G.guts, v.vertex)
    IN  Ok([st EXCEPT !.arcV = v.heap, !.graphs[h].guts = guts2], id)

\* Index / IndexMut for PGraph: the vertex, or one of three panics
index_panic(G, id) ==
    IF id.index >= 0 /\ id.index < Len(G.guts)
    THEN IF G.guts[id.index + 1].some
         THEN IF same_id(G.guts[id.index + 1], id) THEN "" ELSE "invalid generation"
         ELSE "removed"
    ELSE "never existed"

predecessor_ids(G, sink) ==
    LET vs == SelectSeq(G.guts, LAMBDA v : v.some /\ AdjList_weight(v.adj, sink).some)
    IN  [i \in 1..Len(vs) |-> vs[i].id]

\* disconnect that empties the whole table of source
disconnect_mut_clear(st, h, source, sink) ==
    LET G == st.graphs[h]
        msg == index_panic(G, source)
    IN  IF msg # "" THEN Panic(st, msg)
        ELSE LET adj == G.guts[source.index + 1].adj
             IN  Ok([st EXCEPT !.graphs[h].guts[source.index + 1].adj =
                                   [k \in 1..Len(adj) |-> NoneE]],
                    AdjList_weight(adj, sink).some)

disconnect_mut(st, h, source, sink) ==
    LET G == st.graphs[h]
        msg == index_panic(G, source)
    IN  IF msg # "" THEN Panic(st, msg)
        ELSE LET d == AdjList_disconnect_edge(G.guts[source.index + 1].adj, sink)
             IN  Ok([st EXCEPT !.graphs[h].guts[source.index + 1].adj = d.adj], d.ret)

RECURSIVE disconnect_all_fold(_, _, _, _, _)
disconnect_all_fold(st, h, inc, sink, init) ==
    IF inc = <<>> THEN Ok(st, init)
    ELSE LET r == disconnect_mut(st, h, Head(inc), sink)
         IN  IF r.panic THEN r
             ELSE disconnect_all_fold(r.st, h, Tail(inc), sink, r.ret \/ init)

\* a removal that leaves the incoming edges alone
disconnect_all_inc_mut_none(st, h, sink) == Ok(st, FALSE)

disconnect_all_inc_mut(st, h, sink) ==
    disconnect_all_fold(st, h, predecessor_ids(st.graphs[h], sink), sink, FALSE)

remove_mut_no_inc(st, h, id) ==
    LET st1 == [st EXCEPT !.graphs[h].guts[id.index + 1] = NoneV,
                          !.graphs[h].empties = @ \cup {id.index}]
    IN  disconnect_all_inc_mut(st1, h, id)

\* remove_mut without the generation advance
remove_mut_same_gen(st, h, id) ==
    IF has_vertex(st.graphs[h], id)
    THEN LET r == remove_mut_no_inc(st, h, id)
         IN  IF r.panic THEN r ELSE Ok(r.st, TRUE)
    ELSE Ok(st, FALSE)

remove_mut(st, h, id) ==
    IF has_vertex(st.graphs[h], id)
    THEN LET r == remove_mut_no_inc(st, h, id)
         IN  IF r.panic THEN r ELSE Ok(next_gen(r.st, h), TRUE)
    ELSE Ok(st, FALSE)

\* connect_mut that writes to whatever vertex the source's slot holds
connect_mut_by_slot(st, h, source, sink, w) ==
    LET G == st.graphs[h]
    IN  IF has_vertex(G, sink)
        THEN IF index_panic(G, source) \in {"removed", "never existed"}
             THEN Panic(st, index_panic(G, source))
             ELSE LET a == AdjList_add_edge(st.arcE, source.index + 1,
                                            G.guts[source.index + 1].adj, sink, w)
                  IN  Ok([st EXCEPT !.arcE = a.heap,
                                    !.graphs[h].guts[source.index + 1].adj = a.adj], TRUE)
        ELSE Panic(st, "sink not found")

connect_mut(st, h, source, sink, w) ==
    LET G == st.graphs[h]
    IN  IF has_vertex(G, sink)
        THEN LET msg == index_panic(G, source)
             IN  IF msg # "" THEN Panic(st, msg)
                 ELSE LET a == AdjList_add_edge(st.arcE, source.index + 1,
                                                G.guts[source.index + 1].adj, sink, w)
                      IN  Ok([st EXCEPT !.arcE = a.heap,
                                        !.graphs[h].guts[source.index + 1].adj = a.adj], TRUE)
        ELSE Panic(st, "sink not found")

\* let mut result = self.clone(), the result held by handle d
\* a copy that keeps the allocator of the original
clone_into_same_gen(st, s, d) == [st EXCEPT !.graphs[d] = st.graphs[s]]

clone_into(st, s, d) ==
    LET n == PGraph_clone(st, st.graphs[s])
    IN  [n.st EXCEPT !.graphs[d] = n.graph]

add(st, s, d, data) == add_mut(clone_into(st, s, d), d, data)

RECURSIVE add_all_mut(_, _, _)
add_all_mut(st, h, vertices) ==
    IF vertices = <<>> THEN Ok(st, <<>>)
    ELSE LET r == add_mut(st, h, Head(vertices))
             rest == add_all_mut(r.st, h, Tail(vertices))
         IN  Ok(rest.st, <<r.ret>> \o rest.ret)

add_all(st, s, d, data_iter) == add_all_mut(clone_into(st, s, d), d, data_iter)

remove(st, s, d, id) == remove_mut(clone_into(st, s, d), d, id)

try_remove_mut_no_inc(st, h, id) ==
    IF has_vertex(st.graphs[h], id)
    THEN LET r == remove_mut_no_inc(st, h, id)
         IN  IF r.panic THEN r ELSE Ok(r.st, TRUE)
    ELSE Ok(st, FALSE)

\* a fold that stops after the first element of the iterable
remove_all_mut_no_inc_first(st, h, iterable, changed) ==
    IF iterable = <<>> THEN Ok(st, changed)
    ELSE LET r == try_remove_mut_no_inc(st, h, Head(iterable))
         IN  IF r.panic THEN r ELSE Ok(r.st, r.ret \/ changed)

RECURSIVE remove_all_mut_no_inc(_, _, _, _)
remove_all_mut_no_inc(st, h, iterable, changed) ==
    IF iterable = <<>> THEN Ok(st, changed)
    ELSE LET r == try_remove_mut_no_inc(st, h, Head(iterable))
         IN  IF r.panic THEN r
             ELSE remove_all_mut_no_inc(r.st, h, Tail(iterable), r.ret \/ changed)

\* remove_all_mut that advances the generation whether or not it removed
remove_all_mut_always_inc(st, h, iter) ==
    LET r == remove_all_mut_no_inc(st, h, iter, FALSE)
    IN  IF r.panic THEN r ELSE Ok(next_gen(r.st, h), r.ret)

remove_all_mut(st, h, iter) ==
    LET r == remove_all_mut_no_inc(st, h, iter, FALSE)
    IN  IF r.panic THEN r
        ELSE IF r.ret THEN Ok(next_gen(r.st, h), TRUE) ELSE Ok(r.st, FALSE)

remove_all(st, s, d, iterable) == remove_all_mut(clone_into(st, s, d), d, iterable)

\* Arc::make_mut on the payload of slot position i: in place when the handle
\* is the only one, else on a private copy
data_mut(st, h, i) ==
    LET c == st.graphs[h].guts[i].data
    IN  IF strong_count_V(st, c) = 1 THEN [st |-> st, cell |-> c]
        ELSE LET a == Arc_new(st.arcV, <<i>>, st.arcV[c])
             IN  [st |-> [st EXCEPT !.arcV = a.heap, !.graphs[h].guts[i].data = a.cell],
                  cell |-> a.cell]

\* Option<&mut V>: ret is the cell the reference points into
vertex_data_mut(st, h, id) ==
    IF has_vertex(st.graphs[h], id)
    THEN LET m == data_mut(st, h, id.index + 1)
         IN  [st |-> m.st, some |-> TRUE, cell |-> m.cell]
    ELSE [st |-> st, some |-> FALSE]

\* weight_mut that hands out the shared cell, without Arc::make_mut's copy
AdjList_weight_mut_in_place(st, h, i, sink) ==
    LET adj == st.graphs[h].guts[i].adj
        j == sink.index + 1
    IN  IF /\ sink.index >= 0
           /\ sink.index < Len(adj)
           /\ adj[j].some
           /\ adj[j].id = sink
        THEN [st |-> st, some |-> TRUE, cell |-> adj[j].weight]
        ELSE [st |-> st, some |-> FALSE]

\* AdjList::weight_mut on the table of slot position i
AdjList_weight_mut(st, h, i, sink) ==
    LET adj == st.graphs[h].guts[i].adj
        j == sink.index + 1
    IN  IF /\ sink.index >= 0
           /\ sink.index < Len(adj)
           /\ adj[j].some
           /\ adj[j].id = sink
        THEN LET c == adj[j].weight
             IN  IF strong_count_E(st, c) = 1 THEN [st |-> st, some |-> TRUE, cell |-> c]
                 ELSE LET a == Arc_new(st.arcE, <<i, j>>, st.arcE[c])
                      IN  [st |-> [st EXCEPT !.arcE = a.heap,
                                             !.graphs[h].guts[i].adj[j].weight = a.cell],
                           some |-> TRUE, cell |-> a.cell]
        ELSE [st |-> st, some |-> FALSE]

weight_mut(st, h, source, sink) ==
    IF has_vertex(st.graphs[h], source)
    THEN AdjList_weight_mut(st, h, source.index + 1, sink)
    ELSE [st |-> st, some |-> FALSE]

\* ------------------------------------------------------ pgraph/edge.rs
Edge_from(st, h, source, sink) ==
    IF ~has_vertex(st.graphs[h], sink)
    THEN Panic(st, "Cannot construct edge to nonexistent vertex")
    ELSE LET msg == index_panic(st.graphs[h], source)
         IN  IF msg # "" THEN Panic(st, msg) ELSE Ok(st, TRUE)

\* an entry built without looking the sink up
edge_unchecked_sink(st, h, source, sink) ==
    LET msg == index_panic(st.graphs[h], source)
    IN  IF msg # "" THEN Panic(st, msg)
        ELSE Ok(st, [source |-> source.index + 1, sink |-> sink])

\* PGraph::edge: the Edge value, source the &mut Vertex (its position in guts)
edge(st, h, source, sink) ==
    LET e == Edge_from(st, h, source, sink)
    IN  IF e.panic THEN e
        ELSE Ok(st, [source |-> source.index + 1, sink |-> sink])

\* Edge::source: self.source.id()
Edge_source(st, h, e) == st.graphs[h].guts[e.source].id

\* Edge::sink
Edge_sink(e) == e.sink

\* get_or_insert on the entry make_edge_mut returns, then Arc::get_mut(..).unwrap();
\* n counts the evaluations of the default
EntryInsert(st, h, source, sink, default) ==
    LET i == source.index + 1
        j == sink.index + 1
        adj1 == AdjList_make_edge_mut(st.graphs[h].guts[i].adj, sink)
        a == Arc_new(st.arcE, <<i, j>>, default)
        absent == ~adj1[j].some
        adj2 == IF absent THEN [adj1 EXCEPT ![j] = SomeEdge(sink, a.cell)] ELSE adj1
        st2 == [st EXCEPT !.arcE = IF absent THEN a.heap ELSE st.arcE,
                          !.graphs[h].guts[i].adj = adj2]
    IN  [st |-> st2,
         ret |-> adj2[j].weight,
         panic |-> strong_count_E(st2, adj2[j].weight) # 1,
         msg |-> IF strong_count_E(st2, adj2[j].weight) # 1
                 THEN "called Option::unwrap() on a None value" ELSE "",
         absent |-> absent]

or_insert(st, h, source, sink, default) ==
    [EntryInsert(st, h, source, sink, default) EXCEPT !.absent = FALSE] @@ [n |-> 0]

or_insert_with(st, h, source, sink, default) ==
    LET r == EntryInsert(st, h, source, sink, default)
    IN  r @@ [n |-> IF r.absent THEN 1 ELSE 0]

\* the closure the callers pass to and_modify
mutate(w) == IF w = 1 THEN 2 ELSE 1

\* and_modify that inserts the mutated default where there is no edge
and_modify_or_create(st, h, source, sink) ==
    LET m == AdjList_weight_mut(st, h, source.index + 1, sink)
    IN  IF m.some
        THEN [st |-> [m.st EXCEPT !.arcE[m.cell] = mutate(@)], n |-> 1]
        ELSE [st |-> EntryInsert(st, h, source, sink, mutate(1)).st, n |-> 1]

and_modify(st, h, source, sink) ==
    LET m == AdjList_weight_mut(st, h, source.index + 1, sink)
    IN  IF m.some
        THEN [st |-> [m.st EXCEPT !.arcE[m.cell] = mutate(@)], n |-> 1]
        ELSE [st |-> m.st, n |-> 0]

\* ------------------------------------------------ the checked (try_) family
\* Option<&mut Vertex>: the same match as vertex, on guts.get_mut
vertex_mut(G, id) ==
    IF /\ id.index >= 0
       /\ id.index < Len(G.guts)
       /\ G.guts[id.index + 1].some
       /\ same_id(G.guts[id.index + 1], id)
    THEN [some |-> TRUE, pos |-> id.index + 1]
    ELSE [some |-> FALSE]

\* try_connect that writes the edge into the receiver and clones afterwards
try_connect_then_clone(st, s, d, source, sink, w) ==
    IF has_vertex(st.graphs[s], source) /\ has_vertex(st.graphs[s], sink)
    THEN LET r == connect_mut(st, s, source, sink, w)
         IN  IF r.panic THEN r ELSE Ok(clone_into(r.st, s, d), TRUE)
    ELSE Ok(st, FALSE)

\* Cow::Borrowed(self), to_mut() only when both ends are live; ret says Some
try_connect(st, s, d, source, sink, w) ==
    IF has_vertex(st.graphs[s], source) /\ has_vertex(st.graphs[s], sink)
    THEN LET r == connect_mut(clone_into(st, s, d), d, source, sink, w)
         IN  IF r.panic THEN r ELSE Ok(r.st, TRUE)
    ELSE Ok(st, FALSE)

try_connect_mut(st, h, source, sink, w) ==
    LET G == st.graphs[h]
        v == vertex_mut(G, source)
    IN  IF has_vertex(G, sink) /\ v.some
        THEN LET a == AdjList_add_edge(st.arcE, v.pos, G.guts[v.pos].adj, sink, w)
             IN  Ok([st EXCEPT !.arcE = a.heap, !.graphs[h].guts[v.pos].adj = a.adj], TRUE)
        ELSE Ok(st, FALSE)

try_disconnect_mut(st, h, source, sink) ==
    LET G == st.graphs[h]
        v == vertex_mut(G, source)
    IN  IF v.some
        THEN LET d == AdjList_disconnect_edge(G.guts[v.pos].adj, sink)
             IN  Ok([st EXCEPT !.graphs[h].guts[v.pos].adj = d.adj], d.ret)
        ELSE Ok(st, FALSE)

\* try_disconnect that disconnects in the receiver and clones afterwards
try_disconnect_then_clone(st, s, d, source, sink) ==
    IF has_vertex(st.graphs[s], source) /\ has_vertex(st.graphs[s], sink)
    THEN LET r == disconnect_mut(st, s, source, sink)
         IN  IF r.panic THEN r
             ELSE IF r.ret THEN Ok(clone_into(r.st, s, d), TRUE)
             ELSE Ok(st, FALSE)
    ELSE Ok(st, FALSE)

\* the clone to_mut() makes is dropped when disconnect_mut returns false: what
\* stays of it is its draw from GENERATION
try_disconnect(st, s, d, source, sink) ==
    IF has_vertex(st.graphs[s], source) /\ has_vertex(st.graphs[s], sink)
    THEN LET c == clone_into(st, s, d)
             r == disconnect_mut(c, d, source, sink)
         IN  IF r.panic THEN r
             ELSE IF r.ret THEN Ok(r.st, TRUE)
             ELSE Ok([st EXCEPT !.GENERATION = c.GENERATION], FALSE)
    ELSE Ok(st, FALSE)

\* let d = s.connect(source, sink, w): the clone is dropped by a panic, the
\* generation it drew is not given back
connect(st, s, d, source, sink, w) ==
    LET c == clone_into(st, s, d)
        r == connect_mut(c, d, source, sink, w)
    IN  IF r.panic THEN Panic([st EXCEPT !.GENERATION = c.GENERATION], r.msg)
        ELSE r

\* ----------------------------------------- the Cow helpers remove, remove_all
\* fn remove(cow, id): cow.to_mut() clones the receiver into d unless the Cow
\* is already owned; owned tells which of the two the Cow holds
cow_remove(st, s, d, owned, id) ==
    IF has_vertex(st.graphs[IF owned THEN d ELSE s], id)
    THEN LET c == IF owned THEN st ELSE clone_into(st, s, d)
             r == remove_mut_no_inc(c, d, id)
         IN  [st |-> r.st, ret |-> TRUE, panic |-> r.panic, msg |-> r.msg, owned |-> TRUE]
    ELSE [st |-> st, ret |-> FALSE, panic |-> FALSE, msg |-> "", owned |-> owned]

\* fn remove_all(cow, iterable): fold(false, |changed, id| remove(cow, id) || changed)
RECURSIVE cow_remove_all(_, _, _, _, _, _)
cow_remove_all(st, s, d, owned, iterable, changed) ==
    IF iterable = <<>>
    THEN [st |-> st, ret |-> changed, panic |-> FALSE, msg |-> "", owned |-> owned]
    ELSE LET r == cow_remove(st, s, d, owned, Head(iterable))
         IN  IF r.panic THEN r
             ELSE cow_remove_all(r.st, s, d, r.owned, Tail(iterable), r.ret \/ changed)

\* let d = s.try_remove(id): Some(result.into_owned()) or None
try_remove(st, s, d, id) ==
    LET r == cow_remove(st, s, d, FALSE, id)
    IN  IF r.panic THEN Panic(r.st, r.msg) ELSE Ok(r.st, r.ret)

\* let d = s.try_remove_all(iterable)
try_remove_all(st, s, d, iterable) ==
    LET r == cow_remove_all(st, s, d, FALSE, iterable, FALSE)
    IN  IF r.panic THEN Panic(r.st, r.msg) ELSE Ok(r.st, r.ret)

\* ---------------------------------------------------------- graph[id]
\* indexing that takes the occupant of the slot without comparing the Id
index_any_generation(st, h, id) ==
    LET G == st.graphs[h]
    IN  IF id.index >= 0 /\ id.index < Len(G.guts)
        THEN IF G.guts[id.index + 1].some THEN Ok(st, G.guts[id.index + 1])
             ELSE Panic(st, "removed")
        ELSE Panic(st, "never existed")

\* Index<T>: &Vertex or a panic
index(st, h, id) ==
    LET G == st.graphs[h]
    IN  IF id.index >= 0 /\ id.index < Len(G.guts)
        THEN IF G.guts[id.index + 1].some
             THEN IF same_id(G.guts[id.index + 1], id) THEN Ok(st, G.guts[id.index + 1])
                  ELSE Panic(st, "invalid generation")
             ELSE Panic(st, "removed")
        ELSE Panic(st, "never existed")

\* IndexMut<T>: the same match on guts.get_mut; ret is the vertex borrowed
index_mut(st, h, id) ==
    LET msg == index_panic(st.graphs[h], id)
    IN  IF msg # "" THEN Panic(st, msg) ELSE Ok(st, st.graphs[h].guts[id.index + 1])

\* Index<(T,)>: self[id.0].data()
index_data(st, h, id) ==
    LET r == index(st, h, id)
    IN  IF r.panic THEN r ELSE Ok(st, st.arcV[r.ret.data])

\* ------------------------------------------------------- PGraph::recreate
\* for v in self { ids.insert(v.id(), result.add_mut(v.data().clone())) }
RECURSIVE recreate_vertices(_, _, _, _)
recreate_vertices(st, d, vs, idmap) ==
    IF vs = <<>> THEN [st |-> st, idmap |-> idmap]
    ELSE LET r == add_mut(st, d, st.arcV[Head(vs).data])
         IN  recreate_vertices(r.st, d, Tail(vs),
                               [k \in (DOMAIN idmap) \cup {Head(vs).id} |->
                                   IF k = Head(vs).id THEN r.ret ELSE idmap[k]])

\* the (source, sink, weight) triples in the order the two loops visit them
RECURSIVE recreate_edges(_)
recreate_edges(vs) ==
    IF vs = <<>> THEN <<>>
    ELSE LET es == AdjList_into_iter(Head(vs).adj)
         IN  [k \in 1..Len(es) |-> <<Head(vs).id, es[k].id, es[k].weight>>]
             \o recreate_edges(Tail(vs))

RECURSIVE recreate_connect(_, _, _, _)
recreate_connect(st, d, es, idmap) ==
    IF es = <<>> THEN Ok(st, TRUE)
    ELSE IF Head(es)[1] \notin DOMAIN idmap \/ Head(es)[2] \notin DOMAIN idmap
         THEN Panic(st, "key not found in HashMap")
         ELSE LET r == connect_mut(st, d, idmap[Head(es)[1]], idmap[Head(es)[2]],
                                   st.arcE[Head(es)[3]])
              IN  IF r.panic THEN r ELSE recreate_connect(r.st, d, Tail(es), idmap)

recreate(st, s, d) ==
    LET n == PGraph_new(st)
        vs == SelectSeq(st.graphs[s].guts, LAMBDA v : v.some)
        r1 == recreate_vertices([n.st EXCEPT !.graphs[d] = n.graph], d, vs,
                                [k \in {} |-> NoId])
    IN  recreate_connect(r1.st, d, recreate_edges(vs), r1.idmap)

\* ------------------------------------------------------------- the calls
LiveIds(G) ==
    IF G.some THEN {G.guts[i].id : i \in {j \in 1..Len(G.guts) : G.guts[j].some}} ELSE {}

\* Ids a caller can hold
KnownIds == UNION {LiveIds(graphs[h]) \cup removed[h] : h \in Handles}

SeqsUpTo(S, n) == UNION {[1..k -> S] : k \in 0..n}

Call(op, h) ==
    [op |-> op, h |-> h, ids |-> <<>>, retBool |-> FALSE, panic |-> FALSE, msg |-> "", n |-> 0]

\* what has to hold of the state a call leaves for the call to be in the bounds
InBounds(st) ==
    /\ st.GENERATION <= MaxGen
    /\ \A h \in Handles : st.graphs[h].some => Len(st.graphs[h].guts) <= MaxSlots

\* the state after the call: its frees are done, the result is recorded
Commit(r, l) ==
    \E st \in {Canon(r.st)} :
        /\ InBounds(r.st)
        /\ calls < MaxCalls
        /\ calls' = calls + 1
        /\ GENERATION' = st.GENERATION
        /\ graphs' = st.graphs
        /\ arcV' = st.arcV
        /\ arcE' = st.arcE
        /\ last' = [l EXCEPT !.panic = r.panic, !.msg = r.msg]
        /\ UNCHANGED <<threads, eqcall>>

Running == ~last.panic

NoEqCall == [pc |-> "idle", a |-> <<>>, b |-> <<>>, item1 |-> NoneE, item2 |-> NoneE,
             ret |-> FALSE, turns |-> 0]

IdleThread == [pc |-> "idle", reg |-> 0, target |-> 0, gens |-> <<>>, drawn |-> <<>>]

Init ==
    /\ GENERATION = 1
    /\ graphs = [h \in Handles |->
                    IF h = "g"
                    THEN [some |-> TRUE, guts |-> <<>>, empties |-> {},
                          idgen |-> [current_gen |-> 0]]
                    ELSE NoGraph]
    /\ arcV = [c \in {} |-> 0]
    /\ arcE = [c \in {} |-> 0]
    /\ removed = [h \in Handles |-> {}]
    /\ last = Call("new", "g")
    /\ calls = 0
    /\ threads = [t \in Threads |-> IdleThread]
    /\ eqcall = NoEqCall

\* ------------------------------------------------- IdGen on several threads
\* A thread in an IdGen method has made its fetch_add and holds the value in
\* a register until it stores it in the allocator: other threads run between
\* the two.  gens is the current_gen of each allocator the thread owns, drawn
\* the values its fetch_adds returned.
DrawCount ==
    Cardinality({d \in Threads \X (1..MaxDraws) : d[2] <= Len(threads[d[1]].drawn)})

Draw(t, op, target) ==
    /\ threads[t].pc = "idle"
    /\ DrawCount < MaxDraws
    /\ \E f \in {fetch_add(GENERATION)} :
           /\ GENERATION' = f.counter
           /\ threads' = [threads EXCEPT ![t] =
                             [@ EXCEPT !.pc = op, !.reg = f.ret, !.target = target,
                                       !.drawn = Append(@, f.ret)]]
    /\ UNCHANGED <<graphs, arcV, arcE, removed, last, calls, eqcall>>

\* let a = IdGen::new()
ThreadNew(t) == Draw(t, "new", 0)

\* let b = a.clone(), a any allocator of the thread: clone reads nothing of a
ThreadClone(t, source) ==
    /\ source \in DOMAIN threads[t].gens
    /\ Draw(t, "clone", source)

\* a.next_gen(), a an allocator of the thread (&mut self)
ThreadNextGen(t, target) ==
    /\ target \in DOMAIN threads[t].gens
    /\ Draw(t, "next_gen", target)

\* the value drawn becomes the current_gen of the new or the advanced allocator
ThreadStore(t) ==
    /\ threads[t].pc # "idle"
    /\ threads' = [threads EXCEPT ![t] =
                      [@ EXCEPT !.pc = "idle", !.reg = 0, !.target = 0,
                                !.gens = IF threads[t].pc = "next_gen"
                                         THEN [@ EXCEPT ![threads[t].target] = threads[t].reg]
                                         ELSE Append(@, threads[t].reg)]]
    /\ UNCHANGED <<GENERATION, graphs, arcV, arcE, removed, last, calls, eqcall>>

\* ------------------------------------------------------- AdjList::eq
\* the tables eq is called on: per slot None or an entry (Id of that slot,
\* weight), the weight held by value since eq compares through the Arc
EqTables ==
    UNION {{[i \in 1..n |-> IF f[i].some THEN [f[i] EXCEPT !.id.index = i - 1] ELSE f[i]] :
               f \in [1..n -> {NoneE} \cup
                              {[some |-> TRUE, id |-> [index |-> 0, generation |-> g],
                                weight |-> w] : g \in 0..1, w \in Weights}]} :
           n \in 0..MaxSlots}

\* Iterator::next on into_iter(): the first populated entry, or None
first_item(adj) ==
    IF AdjList_into_iter(adj) = <<>> THEN NoneE ELSE Head(AdjList_into_iter(adj))

\* a == b up to the loop: both iterators made, item1 and item2 taken once;
\* turns is the parity of the turns of the loop taken so far
EqCall(a, b) ==
    /\ eqcall.pc = "idle"
    /\ eqcall' = [pc |-> "loop", a |-> a, b |-> b,
                  item1 |-> first_item(a), item2 |-> first_item(b), ret |-> FALSE,
                  turns |-> 0]
    /\ UNCHANGED <<GENERATION, graphs, arcV, arcE, removed, last, calls, threads>>

\* one turn of the loop: the match on item1 and item2, which the loop never
\* takes again from the iterators; the arm () goes round, break returns
EqLoop ==
    /\ eqcall.pc = "loop"
    /\ eqcall' =
          IF eqcall.item1.some
          THEN IF /\ eqcall.item2.some
                  /\ eqcall.item1.id = eqcall.item2.id
                  /\ eqcall.item1.weight = eqcall.item2.weight
               THEN [eqcall EXCEPT !.turns = 1 - @]
               ELSE [eqcall EXCEPT !.pc = "done", !.ret = FALSE]
          ELSE IF eqcall.item2.some
               THEN [eqcall EXCEPT !.pc = "done", !.ret = FALSE]
               ELSE [eqcall EXCEPT !.pc = "done", !.ret = TRUE]
    /\ UNCHANGED <<GENERATION, graphs, arcV, arcE, removed, last, calls, threads>>

\* let d = s.clone()
Clone(s, d) ==
    /\ Running
    /\ s # d
    /\ graphs[s].some
    /\ Commit(Ok(clone_into(State, s, d), TRUE), Call("clone", d))
    /\ removed' = [removed EXCEPT ![d] = removed[s]]

AddMut(h, data) ==
    /\ Running
    /\ graphs[h].some
    /\ \E r \in {add_mut(State, h, data)} :
           Commit(r, [Call("add_mut", h) EXCEPT !.ids = <<r.ret>>])
    /\ UNCHANGED removed

\* let (d, id) = s.add(data)
Add(s, d, data) ==
    /\ Running
    /\ graphs[s].some
    /\ \E r \in {add(State, s, d, data)} :
           Commit(r, [Call("add", d) EXCEPT !.ids = <<r.ret>>])
    /\ removed' = [removed EXCEPT ![d] = removed[s]]

AddAllMut(h, vertices) ==
    /\ Running
    /\ graphs[h].some
    /\ \E r \in {add_all_mut(State, h, vertices)} :
           Commit(r, [Call("add_all_mut", h) EXCEPT !.ids = r.ret])
    /\ UNCHANGED removed

AddAll(s, d, vertices) ==
    /\ Running
    /\ graphs[s].some
    /\ \E r \in {add_all(State, s, d, vertices)} :
           Commit(r, [Call("add_all", d) EXCEPT !.ids = r.ret])
    /\ removed' = [removed EXCEPT ![d] = removed[s]]

\* the incoming edges of id from other vertices, which the removal disconnects
Incoming(G, id) ==
    IF has_vertex(G, id) THEN Len(SelectSeq(predecessor_ids(G, id), LAMBDA x : x # id)) ELSE 0

RemoveMut(h, id) ==
    /\ Running
    /\ graphs[h].some
    /\ \E r \in {remove_mut(State, h, id)} :
           /\ Commit(r, [Call("remove_mut", h) EXCEPT !.retBool = r.ret,
                                                     !.n = Incoming(graphs[h], id)])
           /\ removed' = IF r.ret THEN [removed EXCEPT ![h] = @ \cup {id}] ELSE removed

\* let d = s.remove(id)
Remove(s, d, id) ==
    /\ Running
    /\ graphs[s].some
    /\ \E r \in {remove(State, s, d, id)} :
           /\ Commit(r, [Call("remove", d) EXCEPT !.retBool = r.ret])
           /\ removed' = [removed EXCEPT ![d] = removed[s] \cup (IF r.ret THEN {id} ELSE {})]

RemoveAllMut(h, iter) ==
    /\ Running
    /\ graphs[h].some
    /\ \E r \in {remove_all_mut(State, h, iter)} :
           /\ Commit(r, [Call("remove_all_mut", h) EXCEPT !.retBool = r.ret])
           /\ removed' = [removed EXCEPT ![h] =
                            @ \cup {iter[k] : k \in {m \in 1..Len(iter) :
                                                        has_vertex(graphs[h], iter[m])}}]

RemoveAll(s, d, iter) ==
    /\ Running
    /\ graphs[s].some
    /\ \E r \in {remove_all(State, s, d, iter)} :
           /\ Commit(r, [Call("remove_all", d) EXCEPT !.retBool = r.ret])
           /\ removed' = [removed EXCEPT ![d] =
                            removed[s] \cup {iter[k] : k \in {m \in 1..Len(iter) :
                                                        has_vertex(graphs[s], iter[m])}}]

ConnectMut(h, source, sink, w) ==
    /\ Running
    /\ graphs[h].some
    /\ \E r \in {connect_mut(State, h, source, sink, w)} :
           Commit(r, Call("connect_mut", h))
    /\ UNCHANGED removed

DisconnectMut(h, source, sink) ==
    /\ Running
    /\ graphs[h].some
    /\ \E r \in {disconnect_mut(State, h, source, sink)} :
           Commit(r, [Call("disconnect_mut", h) EXCEPT !.retBool = r.ret])
    /\ UNCHANGED removed

\* if let Some(v) = g.vertex_data_mut(id) { *v = x }
VertexDataMut(h, id, x) ==
    /\ Running
    /\ graphs[h].some
    /\ \E m \in {vertex_data_mut(State, h, id)} :
           Commit(Ok(IF m.some THEN [m.st EXCEPT !.arcV[m.cell] = x] ELSE m.st, TRUE),
                  [Call("vertex_data_mut", h) EXCEPT !.retBool = m.some])
    /\ UNCHANGED removed

\* if let Some(w) = g.weight_mut(source, sink) { *w = x }
WeightMut(h, source, sink, x) ==
    /\ Running
    /\ graphs[h].some
    /\ \E m \in {weight_mut(State, h, source, sink)} :
           Commit(Ok(IF m.some THEN [m.st EXCEPT !.arcE[m.cell] = x] ELSE m.st, TRUE),
                  [Call("weight_mut", h) EXCEPT !.retBool = m.some])
    /\ UNCHANGED removed

\* let w = g.edge(source, sink).or_insert(default); and *w = x when x # 0
EdgeOrInsert(h, source, sink, default, x) ==
    /\ Running
    /\ graphs[h].some
    /\ \E e \in {Edge_from(State, h, source, sink)} :
       \E r \in {IF e.panic THEN e ELSE or_insert(e.st, h, source, sink, default)} :
           IF e.panic THEN Commit(e, Call("or_insert", h))
           ELSE Commit([r EXCEPT !.st = IF r.panic \/ x = 0 THEN r.st
                                        ELSE [r.st EXCEPT !.arcE[r.ret] = x]],
                       [Call("or_insert", h) EXCEPT !.n = r.n])
    /\ UNCHANGED removed

\* g.edge(source, sink).or_insert_with(|| default)
EdgeOrInsertWith(h, source, sink, default) ==
    /\ Running
    /\ graphs[h].some
    /\ \E e \in {Edge_from(State, h, source, sink)} :
       \E r \in {IF e.panic THEN e ELSE or_insert_with(e.st, h, source, sink, default)} :
           IF e.panic THEN Commit(e, Call("or_insert_with", h))
           ELSE Commit(r, [Call("or_insert_with", h) EXCEPT !.n = r.n])
    /\ UNCHANGED removed

\* g.edge(source, sink).and_modify(mutate)
EdgeAndModify(h, source, sink) ==
    /\ Running
    /\ graphs[h].some
    /\ \E e \in {Edge_from(State, h, source, sink)} :
       \E r \in {IF e.panic THEN e ELSE and_modify(e.st, h, source, sink)} :
           IF e.panic THEN Commit(e, Call("and_modify", h))
           ELSE Commit(Ok(r.st, TRUE), [Call("and_modify", h) EXCEPT !.n = r.n])
    /\ UNCHANGED removed

\* if let Some(x) = s.try_connect(source, sink, w) { d = x }
TryConnect(s, d, source, sink, w) ==
    /\ Running
    /\ s # d
    /\ graphs[s].some
    /\ \E r \in {try_connect(State, s, d, source, sink, w)} :
           /\ Commit(r, [Call("try_connect", d) EXCEPT !.retBool = r.ret])
           /\ removed' = IF r.ret THEN [removed EXCEPT ![d] = removed[s]] ELSE removed

TryConnectMut(h, source, sink, w) ==
    /\ Running
    /\ graphs[h].some
    /\ \E r \in {try_connect_mut(State, h, source, sink, w)} :
           Commit(r, [Call("try_connect_mut", h) EXCEPT !.retBool = r.ret])
    /\ UNCHANGED removed

\* if let Some(x) = s.try_disconnect(source, sink) { d = x }
TryDisconnect(s, d, source, sink) ==
    /\ Running
    /\ s # d
    /\ graphs[s].some
    /\ \E r \in {try_disconnect(State, s, d, source, sink)} :
           /\ Commit(r, [Call("try_disconnect", d) EXCEPT !.retBool = r.ret])
           /\ removed' = IF r.ret THEN [removed EXCEPT ![d] = removed[s]] ELSE removed

TryDisconnectMut(h, source, sink) ==
    /\ Running
    /\ graphs[h].some
    /\ \E r \in {try_disconnect_mut(State, h, source, sink)} :
           Commit(r, [Call("try_disconnect_mut", h) EXCEPT !.retBool = r.ret])
    /\ UNCHANGED removed

\* let e = h.edge(source, sink); (e.source(), e.sink())
EdgeEntry(h, source, sink) ==
    /\ Running
    /\ graphs[h].some
    /\ \E r \in {edge(State, h, source, sink)} :
           Commit(r, [Call("edge", h) EXCEPT
                         !.ids = IF r.panic THEN <<>>
                                 ELSE <<Edge_source(r.st, h, r.ret), Edge_sink(r.ret)>>])
    /\ UNCHANGED removed

\* let d = s.connect(source, sink, w)
Connect(s, d, source, sink, w) ==
    /\ Running
    /\ s # d
    /\ graphs[s].some
    /\ \E r \in {connect(State, s, d, source, sink, w)} :
           /\ Commit(r, Call("connect", d))
           /\ removed' = IF r.panic THEN removed ELSE [removed EXCEPT ![d] = removed[s]]

\* if let Some(d) = s.try_remove(id)
TryRemove(s, d, id) ==
    /\ Running
    /\ s # d
    /\ graphs[s].some
    /\ \E r \in {try_remove(State, s, d, id)} :
           /\ Commit(r, [Call("try_remove", d) EXCEPT !.retBool = r.ret])
           /\ removed' = IF r.ret THEN [removed EXCEPT ![d] = removed[s] \cup {id}]
                         ELSE removed

\* if let Some(d) = s.try_remove_all(iter)
TryRemoveAll(s, d, iter) ==
    /\ Running
    /\ s # d
    /\ graphs[s].some
    /\ \E r \in {try_remove_all(State, s, d, iter)} :
           /\ Commit(r, [Call("try_remove_all", d) EXCEPT !.retBool = r.ret])
           /\ removed' = IF r.ret
                         THEN [removed EXCEPT ![d] =
                                 removed[s] \cup {iter[k] : k \in {m \in 1..Len(iter) :
                                                        has_vertex(graphs[s], iter[m])}}]
                         ELSE removed

\* &g[id], &mut g[id] and &g[(id,)]
Index(h, id, form) ==
    /\ Running
    /\ graphs[h].some
    /\ \E r \in {IF form = "index" THEN index(State, h, id)
                 ELSE IF form = "index_mut" THEN index_mut(State, h, id)
                 ELSE index_data(State, h, id)} :
           Commit(r, Call(form, h))
    /\ UNCHANGED removed

\* let g = g.recreate(): the result is built beside the receiver, which is
\* dropped when the variable is rebound (it stays when the call panics)
Recreate ==
    /\ Running
    /\ graphs["g"].some
    /\ ~graphs["h"].some
    /\ \E r \in {recreate(State, "g", "h")} :
           IF r.panic THEN Commit(r, Call("recreate", "g"))
           ELSE Commit(Ok([r.st EXCEPT !.graphs = [h \in Handles |->
                                  IF h = "g" THEN r.st.graphs["h"] ELSE NoGraph]], TRUE),
                       Call("recreate", "g"))
    /\ removed' = [removed EXCEPT !["g"] = {}]

\* One graph variable, rebound by the value-returning operations.
Next ==
    \/ \E data \in DataVals : AddMut("g", data)
    \/ \E data \in DataVals : Add("g", "g", data)
    \/ \E id \in KnownIds : RemoveMut("g", id)
    \/ \E source, sink \in KnownIds, w \in Weights : ConnectMut("g", source, sink, w)
    \/ \E source, sink \in KnownIds : DisconnectMut("g", source, sink)
    \/ Recreate

Spec == Init /\ [][Next]_vars

\* One graph variable, vertices only, with the bulk operations.
NextIds ==
    \/ \E data \in DataVals : AddMut("g", data)
    \/ \E data \in DataVals : Add("g", "g", data)
    \/ \E vs \in SeqsUpTo(DataVals, MaxBatch) : AddAllMut("g", vs)
    \/ \E vs \in SeqsUpTo(DataVals, MaxBatch) : AddAll("g", "g", vs)
    \/ \E id \in KnownIds : RemoveMut("g", id)
    \/ \E id \in KnownIds : Remove("g", "g", id)
    \/ \E iter \in SeqsUpTo(KnownIds, MaxBatch) : RemoveAllMut("g", iter)
    \/ \E iter \in SeqsUpTo(KnownIds, MaxBatch) : RemoveAll("g", "g", iter)

SpecIds == Init /\ [][NextIds]_vars

\* Two graph variables: a graph and its clone, both mutated in place.
SharedCall ==
    \/ Clone("g", "h")
    \/ \E h \in Handles, data \in DataVals : AddMut(h, data)
    \/ \E h \in Handles, id \in KnownIds : RemoveMut(h, id)
    \/ \E h \in Handles, iter \in SeqsUpTo(KnownIds, MaxBatch) : RemoveAllMut(h, iter)
    \/ \E h \in Handles, source, sink \in KnownIds, w \in Weights : ConnectMut(h, source, sink, w)
    \/ \E h \in Handles, source, sink \in KnownIds : DisconnectMut(h, source, sink)
    \/ \E h \in Handles, id \in KnownIds, x \in DataVals : VertexDataMut(h, id, x)
    \/ \E h \in Handles, source, sink \in KnownIds, x \in Weights : WeightMut(h, source, sink, x)
    \/ \E h \in Handles, source, sink \in KnownIds, w \in Weights, x \in {0} \cup Weights :
            EdgeOrInsert(h, source, sink, w, x)
    \/ \E h \in Handles, source, sink \in KnownIds, w \in Weights :
            EdgeOrInsertWith(h, source, sink, w)
    \/ \E h \in Handles, source, sink \in KnownIds : EdgeAndModify(h, source, sink)

NextShared == calls < MaxSharedCalls /\ SharedCall

SpecShared == Init /\ [][NextShared]_vars

\* A graph, the versions the checked operations derive from it, and direct
\* indexing; the second variable supplies Ids that are foreign to the first.
TryCall ==
    \/ \E h \in Handles, data \in DataVals : AddMut(h, data)
    \/ \E id \in KnownIds : RemoveMut("g", id)
    \/ \E iter \in SeqsUpTo(KnownIds, MaxBatch) : RemoveAllMut("g", iter)
    \/ \E source, sink \in KnownIds, w \in Weights : ConnectMut("g", source, sink, w)
    \/ \E source, sink \in KnownIds, w \in Weights : TryConnect("g", "h", source, sink, w)
    \/ \E source, sink \in KnownIds, w \in Weights : TryConnectMut("g", source, sink, w)
    \/ \E source, sink \in KnownIds : TryDisconnect("g", "h", source, sink)
    \/ \E source, sink \in KnownIds : TryDisconnectMut("g", source, sink)
    \/ \E id \in KnownIds, form \in {"index", "index_mut", "index_data"} : Index("g", id, form)

NextTry == calls < MaxTryCalls /\ TryCall

SpecTry == Init /\ [][NextTry]_vars

\* A graph and the versions its checked value-returning operations return.
CheckedCall ==
    \/ \E h \in Handles, data \in DataVals : AddMut(h, data)
    \/ \E id \in KnownIds : RemoveMut("g", id)
    \/ \E source, sink \in KnownIds, w \in Weights : ConnectMut("g", source, sink, w)
    \/ \E source, sink \in KnownIds, w \in Weights : TryConnect("g", "h", source, sink, w)
    \/ \E source, sink \in KnownIds : TryDisconnect("g", "h", source, sink)
    \/ \E s, d \in Handles, id \in KnownIds : TryRemove(s, d, id)
    \/ \E s, d \in Handles, iter \in SeqsUpTo(KnownIds, MaxBatch) : TryRemoveAll(s, d, iter)
    \/ \E source, sink \in KnownIds, w \in Weights : Connect("g", "h", source, sink, w)
    \/ \E source, sink \in KnownIds : EdgeEntry("g", source, sink)

NextChecked == calls < MaxTryCalls /\ CheckedCall

SpecChecked == Init /\ [][NextChecked]_vars

\* Allocators made and advanced by several threads at once.
NextGen ==
    \/ \E t \in Threads : ThreadNew(t)
    \/ \E t \in Threads, source \in 1..MaxDraws : ThreadClone(t, source)
    \/ \E t \in Threads, target \in 1..MaxDraws : ThreadNextGen(t, target)
    \/ \E t \in Threads : ThreadStore(t)

SpecGen == Init /\ [][NextGen]_vars

\* The same threads, started at any value of the counter: the graph of Init
\* was made by PGraph::new at the value before.
InitWrap ==
    /\ GENERATION \in 0..(2 ^ UsizeBits - 1)
    /\ graphs = [h \in Handles |->
                    IF h = "g"
                    THEN [some |-> TRUE, guts |-> <<>>, empties |-> {},
                          idgen |-> [current_gen |->
                                        (GENERATION + 2 ^ UsizeBits - 1) % (2 ^ UsizeBits)]]
                    ELSE NoGraph]
    /\ arcV = [c \in {} |-> 0]
    /\ arcE = [c \in {} |-> 0]
    /\ removed = [h \in Handles |-> {}]
    /\ last = Call("new", "g")
    /\ calls = 0
    /\ threads = [t \in Threads |-> IdleThread]
    /\ eqcall = NoEqCall

SpecWrap == InitWrap /\ [][NextGen]_vars

\* A call of AdjList::eq on any two tables, run to its end if it has one.
NextEq ==
    \/ \E a \in EqTables, b \in EqTables : EqCall(a, b)
    \/ EqLoop

SpecEq == Init /\ [][NextEq]_vars /\ WF_vars(NextEq)

TypeOK == GENERATION \in 1..MaxGen /\ calls \in 0..MaxCalls

\* ------------------------------------------------------------------ claims
Range(f) == {f[k] : k \in DOMAIN f}
AddOps == {"add_mut", "add", "add_all_mut", "add_all"}

\* C1: an Id removed from a graph is never live in it again (has_vertex is
\* false and vertex is None), and no add on that graph returns it, whatever
\* the graph does afterwards, adds into the freed slot included.
GenerationalSoundness ==
    \A h \in Handles : graphs[h].some =>
        \A a \in removed[h] :
            /\ ~has_vertex(graphs[h], a)
            /\ vertex(graphs[h], a) = NoneV
            /\ (last.h = h /\ last.op \in AddOps) => a \notin Range(last.ids)

\* the slot of a removed Id holds a vertex again, put there by the last add
SlotReusedAfterRemove ==
    /\ last.op \in AddOps
    /\ ~last.panic
    /\ \E a \in removed["g"] :
          /\ a.index < Len(graphs["g"].guts)
          /\ graphs["g"].guts[a.index + 1].some
          /\ \E k \in DOMAIN last.ids : last.ids[k].index = a.index

\* C2: every Id an add returns differs from every Id that was live in the
\* receiver right before the call.
InsertionNeverAliases ==
    [][last'.op \in AddOps => Range(last'.ids) \cap LiveIds(graphs["g"]) = {}]_vars
\* C3: add_mut(data) returns an Id that is live afterwards, carries data and
\* has no outgoing edges; everything that was live before is still live with
\* the same data and the same outgoing edges, and exactly one vertex was added.
AddMutOnlyAdds ==
    [][\A data \in DataVals : AddMut("g", data) =>
          LET G  == graphs["g"]
              G2 == graphs'["g"]
              id == last'.ids[1]
          IN  /\ has_vertex(G2, id)
              /\ vertex_data(G2, arcV', id) = [some |-> TRUE, v |-> data]
              /\ outbound_edges(G2, arcE', id) = <<>>
              /\ \A v \in LiveIds(G) :
                    /\ has_vertex(G2, v)
                    /\ vertex_data(G2, arcV', v) = vertex_data(G, arcV, v)
                    /\ outbound_edges(G2, arcE', v) = outbound_edges(G, arcE, v)
              /\ Cardinality(LiveIds(G2)) = Cardinality(LiveIds(G)) + 1]_vars

\* C5 as stated: after remove_mut(b) on a graph where a and b were live and
\* the edge a -> b existed, has_edge(a, b) is false, weight(a, b) is None, b is
\* not among a's outbound ids, and a is still live.
RemovalCascadeAnySource ==
    [][\A b \in KnownIds : RemoveMut("g", b) =>
          \A a \in LiveIds(graphs["g"]) :
              (has_vertex(graphs["g"], b) /\ has_edge(graphs["g"], a, b)) =>
                  /\ ~has_edge(graphs'["g"], a, b)
                  /\ ~weight(graphs'["g"], a, b).some
                  /\ b \notin Range(outbound_ids(graphs'["g"], a))
                  /\ has_vertex(graphs'["g"], a)]_vars

\* C5 amended: the same, where a stays live only if it is a vertex other
\* than b (a self-edge b -> b goes away with b itself).
RemovalCascade ==
    [][\A b \in KnownIds : RemoveMut("g", b) =>
          \A a \in LiveIds(graphs["g"]) :
              (has_vertex(graphs["g"], b) /\ has_edge(graphs["g"], a, b)) =>
                  /\ ~has_edge(graphs'["g"], a, b)
                  /\ ~weight(graphs'["g"], a, b).some
                  /\ b \notin Range(outbound_ids(graphs'["g"], a))
                  /\ (a # b => has_vertex(graphs'["g"], a))]_vars

\* a removal that cut an incoming edge of another, still live, vertex
RemovedWithIncoming ==
    /\ last.op = "remove_mut"
    /\ last.retBool
    /\ last.n >= 1
    /\ LiveIds(graphs["g"]) # {}

\* C6: every entry a live vertex's adjacency iteration yields names a live
\* sink, so has_edge(source, sink) implies both ends are live.
NoDanglingEdges ==
    \A i \in 1..Len(graphs["g"].guts) :
        graphs["g"].guts[i].some =>
            \A sink \in Range(AdjList_id_iter(graphs["g"].guts[i].adj)) :
                has_vertex(graphs["g"], sink)

\* every Id the graph mentions or mentioned
Mentioned(G) ==
    LiveIds(G) \cup removed["g"]
        \cup UNION {Range(outbound_ids(G, v)) : v \in LiveIds(G)}

\* C7: remove_mut(id) returns true exactly when id was live; then id is not
\* live afterwards, every other live vertex stays live with its data, and
\* every edge with both ends other than id keeps its weight.
RemoveMutFrame ==
    [][\A id \in KnownIds : RemoveMut("g", id) =>
          LET G  == graphs["g"]
              G2 == graphs'["g"]
          IN  /\ last'.retBool <=> has_vertex(G, id)
              /\ last'.retBool =>
                    /\ ~has_vertex(G2, id)
                    /\ \A v \in LiveIds(G) \ {id} :
                          /\ has_vertex(G2, v)
                          /\ vertex_data(G2, arcV', v) = vertex_data(G, arcV, v)
                    /\ \A s \in Mentioned(G) \ {id}, t \in Mentioned(G) \ {id} :
                          has_edge(G, s, t) =>
                              /\ has_edge(G2, s, t)
                              /\ weight_of(G2, arcE', s, t) = weight_of(G, arcE, s, t)]_vars

\* a removal that cut an edge of a vertex and left another edge of that
\* vertex, between Ids other than the removed one, in place
RemovedBesideAnEdge ==
    /\ last.op = "remove_mut"
    /\ last.retBool
    /\ last.n >= 1
    /\ \E s \in LiveIds(graphs["g"]), t \in LiveIds(graphs["g"]) :
          has_edge(graphs["g"], s, t)

\* C8: recreate does not panic and returns a graph without holes whose k-th
\* vertex carries the data of the original's k-th live vertex, with an edge
\* between two of them exactly where the original has one, of equal weight.
RecreateRoundTrip ==
    [][last'.op = "recreate" =>
          LET G  == graphs["g"]
              H  == graphs'["g"]
              a  == ids(G)
              b  == ids(H)
          IN  /\ ~last'.panic
              /\ H.empties = {}
              /\ \A i \in 1..Len(H.guts) : H.guts[i].some
              /\ Len(b) = Len(a)
              /\ iter_data(H, arcV') = iter_data(G, arcV)
              /\ \A k \in 1..Len(a), m \in 1..Len(a) :
                    weight_of(H, arcE', b[k], b[m]) = weight_of(G, arcE, a[k], a[m])]_vars
\* what the read API of a graph yields: ids, iter_data, iter_weights, and per
\* live vertex its outgoing (sink, weight) pairs, which decide has_vertex,
\* vertex_data, has_edge and weight for every Id
Observe(G, heapV, heapE) ==
    [ids |-> ids(G),
     data |-> iter_data(G, heapV),
     weights |-> iter_weights(G, heapE),
     edges |-> [v \in LiveIds(G) |-> outbound_edges(G, heapE, v)]]

\* C4: a call on one graph variable leaves everything the read API of the
\* other one yields unchanged, and a clone reads exactly as its original.
CloneIsolation ==
    [][/\ \A o \in Handles :
             (graphs[o].some /\ last'.h # o) =>
                 /\ graphs'[o].some
                 /\ Observe(graphs'[o], arcV', arcE') = Observe(graphs[o], arcV, arcE)
       /\ last'.op = "clone" =>
             Observe(graphs'["h"], arcV', arcE') = Observe(graphs["g"], arcV, arcE)]_vars

\* after a write through weight_mut or and_modify, the graph and its clone
\* hold different weights on an edge they both have
SharedEdgeDiverged ==
    /\ last.op \in {"weight_mut", "and_modify"}
    /\ graphs["g"].some /\ graphs["h"].some
    /\ \E s \in LiveIds(graphs["g"]) \cap LiveIds(graphs["h"]),
          t \in LiveIds(graphs["g"]) \cap LiveIds(graphs["h"]) :
          /\ has_edge(graphs["g"], s, t)
          /\ has_edge(graphs["h"], s, t)
          /\ weight_of(graphs["g"], arcE, s, t) # weight_of(graphs["h"], arcE, s, t)

\* C9: for live s and t, edge(s, t).or_insert(w) and or_insert_with(|| w) do
\* not panic, also on a graph that shares structure with its clone; afterwards
\* the edge exists, with its previous weight if it existed (the closure not
\* called) and with w otherwise.
EntryOrInsert ==
    [][\A h \in Handles : graphs[h].some =>
          \A s \in LiveIds(graphs[h]), t \in LiveIds(graphs[h]), w \in Weights :
              (EdgeOrInsert(h, s, t, w, 0) \/ EdgeOrInsertWith(h, s, t, w)) =>
                  /\ ~last'.panic
                  /\ has_edge(graphs'[h], s, t)
                  /\ weight_of(graphs'[h], arcE', s, t) =
                        IF has_edge(graphs[h], s, t)
                        THEN weight_of(graphs[h], arcE, s, t)
                        ELSE [some |-> TRUE, v |-> w]
                  /\ last'.op = "or_insert_with" =>
                        last'.n = IF has_edge(graphs[h], s, t) THEN 0 ELSE 1]_vars

\* C10: for live s and t, edge(s, t).and_modify(f) calls f once on the weight
\* of an existing edge s -> t and not at all when there is none, in which case
\* has_edge(s, t) stays false; no other edge of any graph changes.
AndModifyNeverCreates ==
    [][\A h \in Handles : graphs[h].some =>
          \A s \in LiveIds(graphs[h]), t \in LiveIds(graphs[h]) :
              EdgeAndModify(h, s, t) =>
                  LET G  == graphs[h]
                      G2 == graphs'[h]
                  IN  /\ ~last'.panic
                      /\ IF has_edge(G, s, t)
                         THEN /\ last'.n = 1
                              /\ weight_of(G2, arcE', s, t) =
                                    [some |-> TRUE, v |-> mutate(weight_of(G, arcE, s, t).v)]
                         ELSE /\ last'.n = 0
                              /\ ~has_edge(G2, s, t)
                      /\ LiveIds(G2) = LiveIds(G)
                      /\ \A b \in (KnownIds \cup Range(outbound_ids(G, s))
                                            \cup Range(outbound_ids(G2, s))) \ {t} :
                            weight_of(G2, arcE', s, b) = weight_of(G, arcE, s, b)
                      /\ \A o \in Handles : graphs[o].some =>
                            \A v \in LiveIds(graphs[o]) :
                                (o # h \/ v # s) =>
                                    outbound_edges(graphs'[o], arcE', v)
                                        = outbound_edges(graphs[o], arcE, v)]_vars

\* and_modify has run the closure on an existing edge
AndModifyApplied ==
    /\ last.op = "and_modify"
    /\ ~last.panic
    /\ last.n = 1
\* what a caller can tell of a graph value: the read API, the free-slot count
\* and generation() behind it
Whole(G, heapV, heapE) ==
    [read |-> Observe(G, heapV, heapE), empties |-> G.empties, idgen |-> G.idgen]

\* C11: try_connect(source, sink, w) returns None exactly when source or sink
\* is not live in the receiver, else a graph where weight(source, sink) is
\* Some(w); the receiver reads the same before and after in both cases.
TryConnectChecked ==
    [][last'.op = "try_connect" =>
          \A source \in KnownIds, sink \in KnownIds, w \in Weights :
              TryConnect("g", "h", source, sink, w) =>
                  /\ ~last'.panic
                  /\ last'.retBool <=>
                        (has_vertex(graphs["g"], source) /\ has_vertex(graphs["g"], sink))
                  /\ last'.retBool =>
                        weight_of(graphs'["h"], arcE', source, sink) = [some |-> TRUE, v |-> w]
                  /\ Whole(graphs'["g"], arcV', arcE') = Whole(graphs["g"], arcV, arcE)]_vars

\* try_connect returned a graph that has an edge the receiver has not
TryConnectDerived ==
    /\ last.op = "try_connect"
    /\ last.retBool
    /\ \E s \in LiveIds(graphs["g"]), t \in LiveIds(graphs["g"]) :
          has_edge(graphs["h"], s, t) /\ ~has_edge(graphs["g"], s, t)

\* C12: when remove_mut, remove_all_mut, try_connect_mut or try_disconnect_mut
\* returns false, the live Ids, data, edges, weights, free-slot set and
\* generation of the graph are as before the call.
RejectedDoesNotMutate ==
    [][(/\ last'.op \in {"remove_mut", "remove_all_mut",
                         "try_connect_mut", "try_disconnect_mut"}
        /\ ~last'.panic
        /\ ~last'.retBool) =>
          Whole(graphs'[last'.h], arcV', arcE') = Whole(graphs[last'.h], arcV, arcE)]_vars

\* a rejected try_connect_mut or remove_all_mut on a graph that has vertices
RejectedOnPopulated ==
    /\ last.op \in {"try_connect_mut", "remove_all_mut"}
    /\ ~last.retBool
    /\ LiveIds(graphs["g"]) # {}
    /\ removed["g"] # {}
\* C13: connect_mut panics whenever sink is not live, and the message of the
\* panic for a sink whose slot was never allocated differs from the message
\* for a sink whose slot is known but holds no vertex of that generation.
ConnectMutPanicDistinguishes ==
    [][last'.op = "connect_mut" =>
          \A source \in KnownIds, sink \in KnownIds, w \in Weights :
              (~has_vertex(graphs["g"], sink) /\ ConnectMut("g", source, sink, w)) =>
                  /\ last'.panic
                  /\ \A other \in KnownIds :
                        (/\ ~has_vertex(graphs["g"], other)
                         /\ (other.index < Len(graphs["g"].guts))
                                # (sink.index < Len(graphs["g"].guts))) =>
                            connect_mut(State, "g", source, other, w).msg # last'.msg]_vars

\* C14: graph[id], in the shared and the mutable form, and graph[(id,)] panic
\* exactly when vertex(id) is None and else yield what vertex(id) yields; the
\* panic is of one kind for a slot held by another generation, of a second
\* for a hole, of a third for an index beyond the slots.
IndexingPanics ==
    [][last'.op \in {"index", "index_mut", "index_data"} =>
          \A id \in KnownIds, form \in {"index", "index_mut", "index_data"} :
              Index("g", id, form) =>
                  LET G == graphs["g"]
                  IN  /\ last'.panic <=> ~vertex(G, id).some
                      /\ ~last'.panic =>
                            /\ index(State, "g", id).ret = vertex(G, id)
                            /\ index_mut(State, "g", id).ret = vertex(G, id)
                            /\ [some |-> TRUE, v |-> index_data(State, "g", id).ret]
                                  = vertex_data(G, arcV, id)
                      /\ last'.panic =>
                            last'.msg = IF id.index >= Len(G.guts) THEN "never existed"
                                        ELSE IF G.guts[id.index + 1].some
                                             THEN "invalid generation"
                                             ELSE "removed"
                      /\ Whole(graphs'["g"], arcV', arcE') = Whole(G, arcV, arcE)]_vars

\* indexing with the Id of a removed vertex whose slot holds a newer vertex
IndexedStaleGeneration ==
    /\ last.op \in {"index", "index_mut", "index_data"}
    /\ last.panic
    /\ last.msg = "invalid generation"
    /\ \E a \in removed["g"] :
          a.index < Len(graphs["g"].guts) /\ graphs["g"].guts[a.index + 1].some
DisconnectMutFrame ==
    [][last'.op = "disconnect_mut" =>
          \A source \in KnownIds, sink \in KnownIds :
              DisconnectMut("g", source, sink) =>
                  LET G  == graphs["g"]
                      G2 == graphs'["g"]
                  IN  IF has_vertex(G, source)
                      THEN /\ ~last'.panic
                           /\ last'.retBool <=> has_edge(G, source, sink)
                           /\ ~has_edge(G2, source, sink)
                           /\ \A s \in Mentioned(G), t \in Mentioned(G) :
                                 <<s, t>> # <<source, sink>> =>
                                     weight_of(G2, arcE', s, t) = weight_of(G, arcE, s, t)
                      ELSE /\ last'.panic
                           /\ Whole(G2, arcV', arcE') = Whole(G, arcV, arcE)]_vars

\* a disconnect that removed source -> sink and left sink -> source in place
DisconnectedOneDirection ==
    /\ last.op = "disconnect_mut"
    /\ last.retBool
    /\ \E s \in LiveIds(graphs["g"]), t \in LiveIds(graphs["g"]) :
          s # t /\ has_edge(graphs["g"], t, s) /\ ~has_edge(graphs["g"], s, t)

\* C17: try_disconnect(source, sink) returns Some exactly when both ends are
\* live and the edge exists; the result lacks that edge and has every other
\* edge of the receiver; the receiver reads the same before and after.
TryDisconnectChecked ==
    [][last'.op = "try_disconnect" =>
          \A source \in KnownIds, sink \in KnownIds :
              TryDisconnect("g", "h", source, sink) =>
                  LET G == graphs["g"]
                  IN  /\ ~last'.panic
                      /\ last'.retBool <=>
                            /\ has_vertex(G, source)
                            /\ has_vertex(G, sink)
                            /\ has_edge(G, source, sink)
                      /\ last'.retBool =>
                            /\ ~has_edge(graphs'["h"], source, sink)
                            /\ \A s \in Mentioned(G), t \in Mentioned(G) :
                                  <<s, t>> # <<source, sink>> =>
                                      weight_of(graphs'["h"], arcE', s, t)
                                          = weight_of(G, arcE, s, t)
                      /\ ~last'.retBool => graphs'["h"] = graphs["h"]
                      /\ Whole(graphs'["g"], arcV', arcE') = Whole(G, arcV, arcE)]_vars

\* try_disconnect returned a graph without an edge the receiver still has
TryDisconnectDerived ==
    /\ last.op = "try_disconnect"
    /\ last.retBool
    /\ \E s \in LiveIds(graphs["g"]), t \in LiveIds(graphs["g"]) :
          has_edge(graphs["g"], s, t) /\ ~has_edge(graphs["h"], s, t)

\* C18: add_all_mut(d) and add_all(d), on any graph (holes included), return
\* as many Ids as there are elements, and vertex_data(ids[i]) = d[i] in the
\* resulting graph: the i-th Id belongs to the i-th element.
AddAllKeepsOrder ==
    [][last'.op \in {"add_all_mut", "add_all"} =>
          \A vs \in SeqsUpTo(DataVals, MaxBatch) :
              (AddAllMut("g", vs) \/ AddAll("g", "g", vs)) =>
                  /\ ~last'.panic
                  /\ Len(last'.ids) = Len(vs)
                  /\ \A i \in 1..Len(vs) :
                        vertex_data(graphs'["g"], arcV', last'.ids[i])
                            = [some |-> TRUE, v |-> vs[i]]]_vars

\* every allocator instance of the process: the graphs' and the threads'
Allocators ==
    {<<"graph", h>> : h \in {x \in Handles : graphs[x].some}}
        \cup {<<t, i>> \in Threads \X (1..MaxDraws) : i <= Len(threads[t].gens)}

current_gen_of(a) ==
    IF a[1] = "graph" THEN graphs[a[2]].idgen.current_gen ELSE threads[a[1]].gens[a[2]]

\* every draw made by a thread
Draws == {<<t, i>> \in Threads \X (1..MaxDraws) : i <= Len(threads[t].drawn)}

\* C19: whatever the interleaving of IdGen::new, clone and next_gen on the
\* threads, no two draws obtain the same generation and no two allocator
\* instances hold the same current generation.
GenerationDrawsDistinct ==
    /\ \A a \in Draws, b \in Draws :
          a # b => threads[a[1]].drawn[a[2]] # threads[b[1]].drawn[b[2]]
    /\ \A a \in Allocators, b \in Allocators :
          a # b => current_gen_of(a) # current_gen_of(b)

\* two threads are between their fetch_add and their store at the same time,
\* one of them advancing an allocator it already owns
DrawsInFlight ==
    \E t \in Threads, u \in Threads :
        /\ t # u
        /\ threads[t].pc = "next_gen"
        /\ threads[u].pc \in {"new", "clone"}
        /\ Len(threads[u].gens) >= 1

\* C20: once h = g.clone(), an Id minted by add_mut on one of the two graphs
\* is not live in the other.
DivergedMintDisjoint ==
    [][(/\ last'.op = "add_mut"
        /\ graphs["g"].some
        /\ graphs["h"].some
        /\ ~last'.panic) =>
          \A o \in Handles \ {last'.h} :
              \A i \in 1..Len(last'.ids) : last'.ids[i] \notin LiveIds(graphs'[o])]_vars

\* the Ids a client can hold: live or removed in either graph, named by an
\* adjacency entry, or beyond the slots of the graph
ProbeIds(G) ==
    KnownIds \cup Mentioned(G) \cup {[index |-> MaxSlots, generation |-> 0]}

\* C21: outbound_ids(source) and outbound_edges(source) are empty when source
\* is not live (removed, stale, out of range, of another graph); when source
\* is live they yield, once each, exactly the sinks t with has_edge(source, t),
\* outbound_edges with the weight weight(source, t) reads.
OutboundExact ==
    LET G == graphs["g"]
    IN  \A source \in ProbeIds(G) :
            LET oi == outbound_ids(G, source)
                oe == outbound_edges(G, arcE, source)
            IN  IF ~has_vertex(G, source)
                THEN oi = <<>> /\ oe = <<>>
                ELSE /\ Range(oi) = {t \in ProbeIds(G) : has_edge(G, source, t)}
                     /\ Cardinality(Range(oi)) = Len(oi)
                     /\ Len(oe) = Len(oi)
                     /\ \A k \in 1..Len(oe) :
                           /\ oe[k][1] = oi[k]
                           /\ weight_of(G, arcE, source, oe[k][1])
                                 = [some |-> TRUE, v |-> oe[k][2]]

\* a removed Id whose slot now holds another vertex that has outbound edges,
\* beside a live vertex with outbound edges
StaleSourceBesideEdges ==
    LET G == graphs["g"]
    IN  \E x \in removed["g"] :
            /\ ~has_vertex(G, x)
            /\ x.index < Len(G.guts)
            /\ G.guts[x.index + 1].some
            /\ outbound_ids(G, G.guts[x.index + 1].id) # <<>>

\* the indices of guts that hold None
Holes(G) == {i \in 0..(Len(G.guts) - 1) : ~G.guts[i + 1].some}

\* C22: empties holds exactly the indices of the slots that are None; a slot
\* filled by add_mut is no longer in empties.
EmptiesAreTheHoles ==
    graphs["g"].empties = Holes(graphs["g"])

\* C23: add_mut stores the vertex in the lowest slot that holds no vertex, or
\* appends it at len(slots) when there is none, and returns that slot's Id.
AddMutSlotChoice ==
    [][last'.op = "add_mut" =>
          \A data \in DataVals :
              AddMut("g", data) =>
                  LET G    == graphs["g"]
                      slot == IF Holes(G) # {} THEN Min(Holes(G)) ELSE Len(G.guts)
                  IN  /\ last'.ids[1].index = slot
                      /\ Len(graphs'["g"].guts) = (IF Holes(G) # {} THEN Len(G.guts)
                                                   ELSE Len(G.guts) + 1)
                      /\ graphs'["g"].guts[slot + 1].some
                      /\ graphs'["g"].guts[slot + 1].id = last'.ids[1]
                      /\ arcV'[graphs'["g"].guts[slot + 1].data] = data]_vars

\* C24: the Id add_mut returns carries the graph's current generation, and
\* add_mut leaves the graph's current generation (and the counter) as it was.
AddMutStampsCurrentGen ==
    [][last'.op = "add_mut" =>
          /\ last'.ids[1].generation = graphs["g"].idgen.current_gen
          /\ graphs'["g"].idgen = graphs["g"].idgen
          /\ GENERATION' = GENERATION]_vars

\* an add_mut on a graph whose generation has moved on since its first Ids
AddedUnderLaterGen ==
    /\ last.op = "add_mut"
    /\ \E x \in LiveIds(graphs["g"]) :
          /\ x # last.ids[1]
          /\ x.generation < last.ids[1].generation

\* g.remove_mut(id) for each id of the iterable, in order
RECURSIVE remove_each(_, _, _)
remove_each(st, h, iter) ==
    IF iter = <<>> THEN Ok(st, FALSE)
    ELSE LET r == remove_mut(st, h, Head(iter))
         IN  IF r.panic THEN r ELSE remove_each(r.st, h, Tail(iter))

\* C25: remove_all_mut(ids) leaves the live vertices, data and edges that
\* remove_mut on each id in order leaves, returns true exactly when some id
\* was live, and draws one new generation when it returns true, none otherwise.
RemoveAllMutAsRemoveEach ==
    [][last'.op = "remove_all_mut" =>
          \A iter \in SeqsUpTo(KnownIds, MaxBatch) :
              RemoveAllMut("g", iter) =>
                  LET G   == graphs["g"]
                      ref == remove_each(State, "g", iter)
                  IN  /\ ~last'.panic
                      /\ ~ref.panic
                      /\ Observe(graphs'["g"], arcV', arcE')
                            = Observe(ref.st.graphs["g"], ref.st.arcV, ref.st.arcE)
                      /\ last'.retBool <=> \E k \in 1..Len(iter) : has_vertex(G, iter[k])
                      /\ IF last'.retBool
                         THEN /\ GENERATION' = GENERATION + 1
                              /\ graphs'["g"].idgen.current_gen = GENERATION
                         ELSE /\ GENERATION' = GENERATION
                              /\ graphs'["g"].idgen = G.idgen]_vars

\* one remove_all_mut took two vertices out for a single draw
RemovedTwoInOneCall ==
    /\ last.op = "remove_all_mut"
    /\ last.retBool
    /\ Cardinality(removed["g"]) = 2
    /\ LiveIds(graphs["g"]) = {}
    /\ GENERATION = 2

\* C26: every occupied slot i holds a vertex whose Id has slot i; hence
\* vertex(id) is Some exactly when id.slot is in range, the slot is occupied
\* and the occupant's generation is id.generation.
SlotIdConsistent ==
    LET G == graphs["g"]
    IN  /\ \A i \in 1..Len(G.guts) : G.guts[i].some => G.guts[i].id.index = i - 1
        /\ \A id \in ProbeIds(G) :
              vertex(G, id).some <=>
                  /\ id.index \in 0..(Len(G.guts) - 1)
                  /\ G.guts[id.index + 1].some
                  /\ G.guts[id.index + 1].id.generation = id.generation

\* two live vertices, one of them in the slot a removed Id still names
RefilledSlotBesideAnother ==
    LET G == graphs["g"]
    IN  /\ Cardinality(LiveIds(G)) = 2
        /\ \E x \in removed["g"] : x.index < Len(G.guts) /\ G.guts[x.index + 1].some

\* the Ids with the slot of t and another generation
StaleFor(t) == {[index |-> t.index, generation |-> n] : n \in 0..MaxGen} \ {t}

\* C27: for a vertex with an edge to t and an Id x of t's slot and another
\* generation, weight(x) and weight_mut(x) are None, is_connected(x) is false,
\* and disconnect(x) returns false and leaves the edge to t in place.
AdjacencyRejectsStale ==
    LET G == graphs["g"]
    IN  \A i \in 1..Len(G.guts) :
            G.guts[i].some =>
                \A t \in Range(AdjList_id_iter(G.guts[i].adj)) :
                    \A x \in StaleFor(t) :
                        /\ AdjList_weight(G.guts[i].adj, x) = NoneE
                        /\ ~AdjList_has_edge(G.guts[i].adj, x)
                        /\ ~AdjList_weight_mut(State, "g", i, x).some
                        /\ AdjList_weight_mut(State, "g", i, x).st = State
                        /\ ~AdjList_disconnect_edge(G.guts[i].adj, x).ret
                        /\ AdjList_has_edge(AdjList_disconnect_edge(G.guts[i].adj, x).adj, t)

\* a vertex has an edge to t while the client still holds a removed Id of
\* t's slot
EdgeBesideStaleSink ==
    LET G == graphs["g"]
    IN  \E v \in LiveIds(G) :
            \E t \in Range(outbound_ids(G, v)) :
                \E x \in removed["g"] : x.index = t.index /\ x # t

\* C28: for every live Id, to_index(id) is id.slot minus the number of
\* elements of empties below id.slot, so the live Ids in slot order map to
\* 0, 1, ..., n-1.
ToIndexCompact ==
    LET G == graphs["g"]
    IN  /\ \A id \in LiveIds(G) :
              to_index(G, id) = id.index - Cardinality({e \in G.empties : e < id.index})
        /\ \A k \in 1..Len(ids(G)) : to_index(G, ids(G)[k]) = k - 1

\* C29: with n live vertices, from_index(i) for i in 0..n-1 does not panic
\* and returns the Id of the i-th live slot in slot order; hence
\* from_index(to_index(id)) = id for every live id.
FromIndexCompact ==
    LET G == graphs["g"]
    IN  /\ \A k \in 1..Len(ids(G)) :
              /\ ~from_index(G, k - 1).panic
              /\ from_index(G, k - 1).ret = ids(G)[k]
        /\ \A id \in LiveIds(G) :
              /\ ~from_index(G, to_index(G, id)).panic
              /\ from_index(G, to_index(G, id)).ret = id

\* C30: node_count() is the number of Ids ids() yields, and node_bound() is
\* greater than to_index(id) for every live id.
NodeCountIsLive ==
    LET G == graphs["g"]
    IN  /\ node_count(G) = Len(ids(G))
        /\ \A id \in LiveIds(G) : node_bound(G) > to_index(G, id)

\* C31: when try_connect, try_disconnect, try_remove or try_remove_all returns
\* None the receiver was not cloned: no generation was drawn during the call.
NoneMeansNoClone ==
    [][(/\ last'.op \in {"try_connect", "try_disconnect", "try_remove", "try_remove_all"}
        /\ ~last'.panic
        /\ ~last'.retBool) => GENERATION' = GENERATION]_vars

\* C32: ids() yields, once each and in increasing slot order, exactly the Ids
\* for which has_vertex holds, skipping the holes; iter_data() yields the data
\* of those vertices in the same order.
IdsAreTheLive ==
    LET G == graphs["g"]
    IN  /\ Range(ids(G)) = {id \in ProbeIds(G) : has_vertex(G, id)}
        /\ \A j \in 1..Len(ids(G)), k \in 1..Len(ids(G)) :
              j < k => ids(G)[j].index < ids(G)[k].index
        /\ Len(iter_data(G, arcV)) = Len(ids(G))
        /\ \A k \in 1..Len(ids(G)) :
              vertex_data(G, arcV, ids(G)[k]) = [some |-> TRUE, v |-> iter_data(G, arcV)[k]]

\* a hole in slot 0 below a live vertex, which ids() has to skip
HoleBelowLive ==
    LET G == graphs["g"]
    IN  /\ Len(G.guts) = 2
        /\ ~G.guts[1].some
        /\ G.guts[2].some
        /\ Len(ids(G)) = 1

\* C33: connect_mut and connect with a live sink and a source that is not
\* live panic through the indexing of the source, and at the panic the graph
\* has the vertices, edges, free slots and generation it had before the call.
ConnectAllOrNothing ==
    [][last'.op \in {"connect_mut", "connect"} =>
          \A source \in KnownIds, sink \in KnownIds, w \in Weights :
              (/\ has_vertex(graphs["g"], sink)
               /\ ~has_vertex(graphs["g"], source)
               /\ \/ ConnectMut("g", source, sink, w)
                  \/ Connect("g", "h", source, sink, w)) =>
                  /\ last'.panic
                  /\ last'.msg \in {"invalid generation", "removed", "never existed"}
                  /\ Whole(graphs'["g"], arcV', arcE') = Whole(graphs["g"], arcV, arcE)
                  /\ graphs'["h"] = graphs["h"]]_vars

\* connect_mut panicked on a stale source whose slot holds another vertex,
\* in a graph that has an edge
PanickedOnStaleSource ==
    /\ last.op = "connect_mut"
    /\ last.panic
    /\ last.msg = "invalid generation"
    /\ \E s \in LiveIds(graphs["g"]), t \in LiveIds(graphs["g"]) : has_edge(graphs["g"], s, t)

\* C34: edge(source, sink) panics, the graph unchanged, when sink is not live
\* (looked up first) or source is not live; with both live it returns an
\* entry whose source() and sink() are the Ids given.
EdgeEntryChecked ==
    [][last'.op = "edge" =>
          \A source \in KnownIds, sink \in KnownIds :
              EdgeEntry("g", source, sink) =>
                  LET G == graphs["g"]
                  IN  /\ Whole(graphs'["g"], arcV', arcE') = Whole(G, arcV, arcE)
                      /\ GENERATION' = GENERATION
                      /\ IF ~has_vertex(G, sink)
                         THEN /\ last'.panic
                              /\ last'.msg = "Cannot construct edge to nonexistent vertex"
                         ELSE IF ~has_vertex(G, source)
                         THEN /\ last'.panic
                              /\ last'.msg \in {"invalid generation", "removed",
                                                "never existed"}
                         ELSE /\ ~last'.panic
                              /\ last'.ids = <<source, sink>>]_vars

\* an entry between two different live vertices of a graph that has lost one
EntryBesideRemoved ==
    /\ last.op = "edge"
    /\ ~last.panic
    /\ last.ids[1] # last.ids[2]
    /\ removed["g"] # {}

\* C35: whatever the value of the counter and the draws of other threads,
\* next_gen leaves the allocator with a generation greater than it had, and a
\* clone has a generation greater than the allocator it was cloned from, which
\* keeps its own.
GenerationMonotonic ==
    [][\A t \in Threads :
          ThreadStore(t) =>
              /\ threads[t].pc = "next_gen" =>
                    threads'[t].gens[threads[t].target] > threads[t].gens[threads[t].target]
              /\ threads[t].pc = "clone" =>
                    /\ threads'[t].gens[Len(threads'[t].gens)]
                          > threads[t].gens[threads[t].target]
                    /\ threads'[t].gens[threads[t].target]
                          = threads[t].gens[threads[t].target]]_vars

\* C36: recreate() completes without panicking on every reachable graph:
\* every sink Id it looks up is a key of the map built from the live vertices
\* and every connect_mut it replays has a live source and sink.
RecreateTotal ==
    [][last'.op = "recreate" => ~last'.panic]_vars

\* C37: the graph try_remove or try_remove_all returns has a current
\* generation that no Id minted before the call carries; an add on a graph
\* returns an Id that is none of the Ids removed from it, and has_vertex of a
\* removed Id stays false.
CheckedRemovalSound ==
    [][/\ (last'.op \in {"try_remove", "try_remove_all"} /\ last'.retBool) =>
             /\ graphs'[last'.h].idgen.current_gen = GENERATION
             /\ \A x \in KnownIds : x.generation # graphs'[last'.h].idgen.current_gen
       /\ (last'.op = "add_mut" /\ ~last'.panic) =>
             last'.ids[1] \notin removed'[last'.h]
       /\ \A d \in Handles :
             graphs'[d].some => \A x \in removed'[d] : ~has_vertex(graphs'[d], x)]_vars

\* an add on the graph a checked removal returned has reused the freed slot
AddedIntoCheckedRemoval ==
    /\ last.op = "add_mut"
    /\ last.h = "h"
    /\ \E x \in removed["h"] \ removed["g"] :
          /\ x.index = last.ids[1].index
          /\ has_vertex(graphs["g"], x)

\* C38: AdjList::eq returns after finitely many steps on every pair of
\* tables, with true exactly when both yield the same sequence of
\* (sink Id, weight) entries.
AdjListEqTerminates ==
    [](eqcall.pc = "loop" =>
          <>(/\ eqcall.pc = "done"
             /\ eqcall.ret <=> AdjList_into_iter(eqcall.a) = AdjList_into_iter(eqcall.b)))
====
